---- MODULE Spec2Model ----
(***************************************************************************)
(* A model of the DhanHQ LTP bot (bot_auto_resolve.py): symbol resolution, *)
(* the tick callback, the latest-value table and the throttled Telegram    *)
(* update.                                                                 *)
(*                                                                         *)
(* Python values are tagged records (ty, s, n, d) so that None, strings,   *)
(* ints, floats and dicts never compare equal to one another.  A float is  *)
(* held in hundredths (24500.55 is 2450055).  Time is in whole seconds.    *)
(***************************************************************************)
EXTENDS Integers, Sequences, FiniteSets, TLC

VARIABLES
    POLL_INTERVAL,   \* int(os.getenv("POLL_INTERVAL", "60"))
    tg_bot,          \* TRUE iff TELEGRAM_BOT_TOKEN was set (tg_bot is a Bot)
    lookup,          \* the three id tables of dhanhq_security_ids.py
    resolved_map,    \* main(): result of resolve_symbols_list(), in insertion order
    latest,          \* display name -> [ltp, raw]
    hist,            \* every value the table `latest` has had so far
    _last_sent,      \* time of the last update that passed the throttle
    clock,           \* time.time() of the host
    sent,            \* calls of tg_bot.send_message, in order
    last,            \* the last tick handed to the callback, when, and how the call ended
    delivered,       \* number of ticks the feed has delivered
    pc,              \* position of each feed thread inside the callback
    loc              \* locals of each feed thread's running callback

vars == <<POLL_INTERVAL, tg_bot, lookup, resolved_map, latest, hist, _last_sent,
          clock, sent, last, delivered, pc, loc>>

---------------------------------------------------------------------------
(* Bounds of the model *)

StartClock == 12
MaxClock == 25
IdleSpan == 12
MaxTicks == 3
MaxThrottleTicks == 4
MaxConcTicks == 3

---------------------------------------------------------------------------
(* Python values *)

EmptyDict == [k \in {} |-> 0]

NoneV == [ty |-> "none", s |-> "", n |-> 0, d |-> EmptyDict]
S(str) == [ty |-> "str", s |-> str, n |-> 0, d |-> EmptyDict]
I(int) == [ty |-> "int", s |-> "", n |-> int, d |-> EmptyDict]
F(hundredths) == [ty |-> "float", s |-> "", n |-> hundredths, d |-> EmptyDict]
D(dict) == [ty |-> "dict", s |-> "", n |-> 0, d |-> dict]

Digit(d) ==
    CASE d = 0 -> "0" [] d = 1 -> "1" [] d = 2 -> "2" [] d = 3 -> "3"
      [] d = 4 -> "4" [] d = 5 -> "5" [] d = 6 -> "6" [] d = 7 -> "7"
      [] d = 8 -> "8" [] d = 9 -> "9"

RECURSIVE StrNat(_)
StrNat(n) == IF n < 10 THEN Digit(n) ELSE StrNat(n \div 10) \o Digit(n % 10)

StrInt(n) == IF n < 0 THEN "-" \o StrNat(-n) ELSE StrNat(n)

\* repr of a float with at most two decimals: 99.9 -> "99.9", 10.0 -> "10.0"
StrFloat(h) ==
    LET a == IF h < 0 THEN -h ELSE h
        frac == a % 100
        body == StrNat(a \div 100) \o "." \o
                (IF frac % 10 = 0 THEN Digit(frac \div 10)
                 ELSE Digit(frac \div 10) \o Digit(frac % 10))
    IN  IF h < 0 THEN "-" \o body ELSE body

\* str(v)
py_str(v) ==
    CASE v.ty = "str" -> v.s
      [] v.ty = "int" -> StrInt(v.n)
      [] v.ty = "float" -> StrFloat(v.n)
      [] v.ty = "none" -> "None"
      [] v.ty = "dict" -> "{...}"

\* truth value of v, as `if v:` takes it
Truthy(v) ==
    CASE v.ty = "str" -> v.s # ""
      [] v.ty = "int" -> v.n # 0
      [] v.ty = "float" -> v.n # 0
      [] v.ty = "none" -> FALSE
      [] v.ty = "dict" -> DOMAIN v.d # {}

\* `k in v and isinstance(v[k], dict)` for a dict v
HasDict(v, k) == k \in DOMAIN v.d /\ v.d[k].ty = "dict"

\* where a `for ...: if ...: break` loop stops: the least of the indices that
\* satisfy the loop's test, 0 when there is none
FirstIdx(hits) ==
    IF hits = {} THEN 0 ELSE CHOOSE i \in hits : \A j \in hits : i <= j

Max(a, b) == IF a >= b THEN a ELSE b

---------------------------------------------------------------------------
(* Configuration and symbol resolution *)

SYMBOLS ==
    << <<"NIFTY 50", "indices_nse">>, <<"NIFTY BANK", "indices_nse">>,
       <<"SENSEX", "indices_bse">>, <<"TATAMOTORS", "nifty50">>,
       <<"RELIANCE", "nifty50">>, <<"TCS", "nifty50">> >>

\* dhanhq_security_ids.py as shipped
LookupShipped ==
    [INDICES_NSE |-> ("NIFTY 50" :> "13" @@ "NIFTY BANK" :> "25" @@ "BANKNIFTY" :> "25"),
     INDICES_BSE |-> ("SENSEX" :> "51"),
     NIFTY50_STOCKS |-> ("TATAMOTORS" :> "3456" @@ "RELIANCE" :> "2885" @@ "TCS" :> "11536")]

\* the same file edited so that some tracked symbols have no id and so that
\* TATAMOTORS (segment NSE_EQ) carries the id NIFTY 50 has in NSE_INDEX
LookupPartial ==
    [INDICES_NSE |-> ("NIFTY 50" :> "13" @@ "NIFTY BANK" :> "25"),
     INDICES_BSE |-> EmptyDict,
     NIFTY50_STOCKS |-> ("TATAMOTORS" :> "13" @@ "RELIANCE" :> "")]

LookupConfigs == {LookupShipped, LookupPartial}

\* dict.get(name): None when the key is missing
DictGet(table, name) == IF name \in DOMAIN table THEN S(table[name]) ELSE NoneV

\* mutant: the id is turned into a string before it is tested, so that an
\* unresolved entry carries the id "None"
ResolveOne_StrNone(tables, name, kind) ==
    LET sid == IF kind = "indices_nse" THEN DictGet(tables.INDICES_NSE, name)
               ELSE IF kind = "indices_bse" THEN DictGet(tables.INDICES_BSE, name)
               ELSE DictGet(tables.NIFTY50_STOCKS, name)
        seg == IF kind = "indices_nse" THEN "NSE_INDEX"
               ELSE IF kind = "indices_bse" THEN "BSE_INDEX"
               ELSE "NSE_EQ"
    IN  IF Truthy(sid)
        THEN [name |-> name, seg |-> S(seg), sid |-> S(py_str(sid))]
        ELSE [name |-> name, seg |-> NoneV, sid |-> S(py_str(sid))]

\* mutant: the BSE branch reads the NSE index table
ResolveOne_WrongTable(tables, name, kind) ==
    LET sid == IF kind = "indices_nse" THEN DictGet(tables.INDICES_NSE, name)
               ELSE IF kind = "indices_bse" THEN DictGet(tables.INDICES_NSE, name)
               ELSE DictGet(tables.NIFTY50_STOCKS, name)
        seg == IF kind = "indices_nse" THEN "NSE_INDEX"
               ELSE IF kind = "indices_bse" THEN "BSE_INDEX"
               ELSE "NSE_EQ"
    IN  IF Truthy(sid)
        THEN [name |-> name, seg |-> S(seg), sid |-> S(py_str(sid))]
        ELSE [name |-> name, seg |-> NoneV, sid |-> NoneV]

\* the body of the loop of resolve_symbols_list for one (name, kind)
ResolveOne(tables, name, kind) ==
    LET sid == IF kind = "indices_nse" THEN DictGet(tables.INDICES_NSE, name)
               ELSE IF kind = "indices_bse" THEN DictGet(tables.INDICES_BSE, name)
               ELSE DictGet(tables.NIFTY50_STOCKS, name)
        seg == IF kind = "indices_nse" THEN "NSE_INDEX"
               ELSE IF kind = "indices_bse" THEN "BSE_INDEX"
               ELSE "NSE_EQ"
    IN  IF Truthy(sid)
        THEN [name |-> name, seg |-> S(seg), sid |-> S(py_str(sid))]
        ELSE [name |-> name, seg |-> NoneV, sid |-> NoneV]

\* resolved_map of resolve_symbols_list(): one entry per symbol, in order
resolve_symbols_list(tables) ==
    [i \in 1..Len(SYMBOLS) |-> ResolveOne(tables, SYMBOLS[i][1], SYMBOLS[i][2])]

\* max(10, POLL_INTERVAL)
MinGap == 10
Interval(poll) == Max(MinGap, poll)

---------------------------------------------------------------------------
(* Tick normalisation and matching *)

TopSidKeys == <<"SecurityId", "securityId", "SecurityID", "securityID", "security_id", "sid">>
NestedSidKeys == <<"securityId", "SecurityId", "sid">>
LtpKeys == <<"LTP", "ltp", "last_price", "lastPrice", "lastPriceTicks", "last">>

\* `k in tick` raises TypeError unless tick is a container
TickRaises(tick) == tick.ty # "dict"

\* the top-level loop over the id keys: first key present with a non-None value
TopSid(tick) ==
    LET i == FirstIdx({j \in 1..Len(TopSidKeys) :
                          TopSidKeys[j] \in DOMAIN tick.d /\ tick.d[TopSidKeys[j]].ty # "none"})
    IN  IF i = 0 THEN NoneV ELSE S(py_str(tick.d[TopSidKeys[i]]))

\* the loop under tick[c]: first key present, whatever its value
NestedSid(tick, c) ==
    IF HasDict(tick, c)
    THEN LET inner == tick.d[c]
             i == FirstIdx({j \in 1..Len(NestedSidKeys) : NestedSidKeys[j] \in DOMAIN inner.d})
         IN  IF i = 0 THEN NoneV ELSE S(py_str(inner.d[NestedSidKeys[i]]))
    ELSE NoneV

\* sid as _on_tick finds it: top level, then "instrument", then "data"
tick_sid(tick) ==
    LET s1 == TopSid(tick)
        s2 == IF s1 = NoneV THEN NestedSid(tick, "instrument") ELSE s1
    IN  IF s2 = NoneV THEN NestedSid(tick, "data") ELSE s2

\* mutant: the scan has no break, so the last entry with the sid is taken
ScanBySid_Last(rmap, sid) ==
    LET hits == {j \in 1..Len(rmap) : rmap[j].sid = sid}
    IN  IF hits = {} THEN NoneV
        ELSE S(rmap[CHOOSE i \in hits : \A j \in hits : i >= j].name)

\* one scan of resolved_map.items() for info.get("sid") == sid
ScanBySid(rmap, sid) ==
    LET i == FirstIdx({j \in 1..Len(rmap) : rmap[j].sid = sid})
    IN  IF i = 0 THEN NoneV ELSE S(rmap[i].name)

\* mutant: a sid that matches nothing falls back to the first symbol
tick_disp_Default(rmap, sid) ==
    LET d1 == ScanBySid(rmap, sid)
    IN  IF ~Truthy(d1) THEN S(rmap[1].name) ELSE d1

\* disp as _on_tick finds it: the scan, repeated when it found nothing
tick_disp(rmap, sid) ==
    LET d1 == ScanBySid(rmap, sid)
    IN  IF ~Truthy(d1) THEN ScanBySid(rmap, sid) ELSE d1

\* the loop over the price keys of one dict: first key present with a non-None value
LtpIn(dict) ==
    LET i == FirstIdx({j \in 1..Len(LtpKeys) :
                          LtpKeys[j] \in DOMAIN dict.d /\ dict.d[LtpKeys[j]].ty # "none"})
    IN  IF i = 0 THEN NoneV ELSE dict.d[LtpKeys[i]]

extract_ltp_from_tick(tick) ==
    LET top == LtpIn(tick)
    IN  IF top # NoneV THEN top
        ELSE IF HasDict(tick, "data") THEN LtpIn(tick.d["data"])
        ELSE NoneV

\* mutant: a tick without a price is dropped
StoreTick_SkipNone(store, disp, ltp, tick) ==
    IF ltp = NoneV THEN store
    ELSE [n \in DOMAIN store \cup {disp} |->
            IF n = disp THEN [ltp |-> ltp, raw |-> tick] ELSE store[n]]

\* mutant: an entry that exists is kept (first write wins)
StoreTick_FirstWins(store, disp, ltp, tick) ==
    IF disp \in DOMAIN store THEN store
    ELSE [n \in DOMAIN store \cup {disp} |->
            IF n = disp THEN [ltp |-> ltp, raw |-> tick] ELSE store[n]]

\* latest[disp] = {"ltp": ltp, "raw": tick}
StoreTick(store, disp, ltp, tick) ==
    [n \in DOMAIN store \cup {disp} |->
        IF n = disp THEN [ltp |-> ltp, raw |-> tick] ELSE store[n]]

---------------------------------------------------------------------------
(* Rendering *)

\* the numeric strings float() is applied to in this model, in hundredths
NumericLiterals == ("10.5" :> 1050 @@ "7" :> 700)

\* float(v) succeeds
FloatOk(v) ==
    \/ v.ty \in {"int", "float"}
    \/ v.ty = "str" /\ v.s \in DOMAIN NumericLiterals

\* float(v), in hundredths
FloatOf(v) ==
    CASE v.ty = "int" -> v.n * 100
      [] v.ty = "float" -> v.n
      [] v.ty = "str" -> NumericLiterals[v.s]

TwoDigits(n) == Digit((n \div 10) % 10) \o Digit(n % 10)

\* f"{x:.2f}"
Fixed2(h) ==
    LET a == IF h < 0 THEN -h ELSE h
        body == StrNat(a \div 100) \o "." \o TwoDigits(a % 100)
    IN  IF h < 0 THEN "-" \o body ELSE body

\* datetime.now().strftime("%Y-%m-%d %H:%M:%S IST") on the first day of the epoch
Timestamp(now) ==
    "1970-01-01 " \o TwoDigits((now \div 3600) % 24) \o ":" \o
    TwoDigits((now \div 60) % 60) \o ":" \o TwoDigits(now % 60) \o " IST"

Header(now) == "LTP Update - " \o Timestamp(now)

\* mutant: the segment is formatted as it is stored, None included
RenderLine_NoneSegment(info, store) ==
    LET head == info.name \o " (" \o py_str(info.seg) \o "): "
    IN  IF info.name \in DOMAIN store /\ store[info.name].ltp # NoneV
        THEN IF FloatOk(store[info.name].ltp)
             THEN head \o Fixed2(FloatOf(store[info.name].ltp))
             ELSE head \o py_str(store[info.name].ltp)
        ELSE head \o "(No Data)"

\* mutant: an entry is rendered whenever it exists, also with a null price
RenderLine_NullAsPrice(info, store) ==
    LET seg == IF Truthy(info.seg) THEN info.seg.s ELSE ""
        head == info.name \o " (" \o seg \o "): "
    IN  IF info.name \in DOMAIN store
        THEN IF FloatOk(store[info.name].ltp)
             THEN head \o Fixed2(FloatOf(store[info.name].ltp))
             ELSE head \o py_str(store[info.name].ltp)
        ELSE head \o "(No Data)"

\* the line appended for one entry of resolved_map
RenderLine(info, store) ==
    LET seg == IF Truthy(info.seg) THEN info.seg.s ELSE ""
        head == info.name \o " (" \o seg \o "): "
    IN  IF info.name \in DOMAIN store /\ store[info.name].ltp # NoneV
        THEN IF FloatOk(store[info.name].ltp)
             THEN head \o Fixed2(FloatOf(store[info.name].ltp))
             ELSE head \o py_str(store[info.name].ltp)
        ELSE head \o "(No Data)"

\* lines of the message; the text sent is their join with "\n"
RenderLines(rmap, store, now) ==
    <<Header(now)>> \o [i \in 1..Len(rmap) |-> RenderLine(rmap[i], store)]

---------------------------------------------------------------------------
(* Ticks the feed delivers *)

TickNifty == D("SecurityId" :> S("13") @@ "LTP" :> F(2450055))
TickNiftyLast == D("sid" :> I(13) @@ "last" :> I(24501))
TickNiftyNoPrice == D("SecurityId" :> S("13") @@ "LTP" :> NoneV)
TickBankData == D("data" :> D("ltp" :> F(9990) @@ "securityId" :> S("25")))
TickBankTopPrice == D("instrument" :> D("sid" :> S("25")) @@ "last_price" :> S("10.5"))
TickBankInstrument == D("instrument" :> D("securityId" :> S("25") @@ "ltp" :> F(9990)))
TickBankText == D("securityID" :> S("25") @@ "lastPrice" :> S("n/a"))
TickSensexSeg == D("security_id" :> S("51") @@ "ExchangeSegment" :> S("NSE_EQ") @@ "ltp" :> I(80000))
TickRelianceShadow == D("SecurityId" :> NoneV @@ "data" :> D("SecurityId" :> I(2885) @@ "lastPriceTicks" :> S("7")))
TickPayload == D("payload" :> D("securityId" :> S("13") @@ "ltp" :> F(150)))
TickUnknown == D("securityId" :> S("9999") @@ "lastPrice" :> I(10))
TickNoId == D("LTP" :> F(100))
TickNullId == D("SecurityId" :> NoneV @@ "instrument" :> D("securityId" :> NoneV) @@ "LTP" :> I(3))
TickBadContainer == D("data" :> S("securityId") @@ "instrument" :> I(25))
TickNone == NoneV
TickNumber == I(13)

\* ticks of the throttle specification
ThrottleTicks == {TickNifty, TickBankData, TickUnknown}

\* ticks of the tick-shape specification
AllTicks ==
    {TickNifty, TickNiftyLast, TickNiftyNoPrice, TickBankData, TickBankTopPrice,
     TickBankInstrument, TickBankText, TickSensexSeg, TickRelianceShadow, TickPayload,
     TickUnknown, TickNoId, TickNullId, TickBadContainer, TickNone, TickNumber}

\* ticks of the concurrent specification
ConcTicks == {TickNifty, TickNiftyLast, TickBankData, TickUnknown}

\* the threads: the feed's, which run the callback, and the one running main()
FeedThreads == {"feed1", "feed2"}
Threads == FeedThreads \cup {"main"}

\* locals of a thread that runs no callback
NoLocals == [tick |-> NoneV, now |-> 0, text |-> <<>>]

---------------------------------------------------------------------------
(* The throttled update *)

\* mutants of the gate: POLL_INTERVAL ignored; the boundary second still gated
ThrottleClosed_FloorOnly(now, lastSent, poll) == now - lastSent < MinGap
ThrottleClosed_Inclusive(now, lastSent, poll) == now - lastSent <= Interval(poll)

\* the gate of _maybe_send_telegram_update: TRUE when the call returns at once
ThrottleClosed(now, lastSent, poll) == now - lastSent < Interval(poll)

\* one call of tg_bot.send_message as the Notifier sees it
Message(now, seen, text, ok) == [at |-> now, seen |-> seen, text |-> text, ok |-> ok]

\* mutant: a failed send gives the throttle clock back
MaybeSend_Rollback(store, ok) ==
    LET now == clock
    IN  IF ThrottleClosed(now, _last_sent, POLL_INTERVAL)
        THEN UNCHANGED <<_last_sent, sent>>
        ELSE /\ _last_sent' = IF tg_bot /\ ~ok THEN _last_sent ELSE now
             /\ sent' = IF tg_bot
                        THEN Append(sent, Message(now, now,
                                                  RenderLines(resolved_map, store, now), ok))
                        ELSE sent

\* _maybe_send_telegram_update() run to its end with the table `store`;
\* ok says whether send_message returns or raises (the raise is logged)
_maybe_send_telegram_update(store, ok) ==
    LET now == clock
    IN  IF ThrottleClosed(now, _last_sent, POLL_INTERVAL)
        THEN UNCHANGED <<_last_sent, sent>>
        ELSE /\ _last_sent' = now
             /\ sent' = IF tg_bot
                        THEN Append(sent, Message(now, _last_sent',
                                                  RenderLines(resolved_map, store, now), ok))
                        ELSE sent

---------------------------------------------------------------------------
(* The tick callback *)

\* mutant: the handler lets the exception through
callback_exit_Reraise(raised) == IF raised THEN "raised" ELSE "returned"

\* how a call of _on_tick ends, given whether its body raised: the handler
\* logs the exception and the call returns
callback_exit(raised) == IF raised THEN "logged" ELSE "returned"

\* _on_tick(tick) run to its end
_on_tick(tick, ok) ==
    /\ last' = [tick |-> tick, result |-> callback_exit(TickRaises(tick)), at |-> clock]
    /\ IF TickRaises(tick)
       THEN UNCHANGED <<latest, _last_sent, sent>>
       ELSE LET sid == tick_sid(tick)
                disp == tick_disp(resolved_map, sid)
                ltp == extract_ltp_from_tick(tick)
            IN  IF sid = NoneV \/ ~Truthy(disp)
                THEN UNCHANGED <<latest, _last_sent, sent>>
                ELSE LET store == StoreTick(latest, disp.s, ltp, tick)
                     IN  /\ latest' = store
                         /\ _maybe_send_telegram_update(store, ok)

\* the feed hands one tick to the callback
FeedDelivers(tick, ok) ==
    /\ delivered' = delivered + 1
    /\ _on_tick(tick, ok)
    /\ hist' = hist \cup {latest'}
    /\ UNCHANGED <<POLL_INTERVAL, tg_bot, lookup, resolved_map, clock, pc, loc>>

\* mutant: the loop is a timer that sends the update itself when one is due
MainLoop_Emits(n) ==
    /\ pc["main"] = "sleep"
    /\ clock + n <= MaxClock
    /\ clock' = clock + n
    /\ IF ThrottleClosed(clock, _last_sent, POLL_INTERVAL) \/ ~tg_bot
       THEN UNCHANGED <<_last_sent, sent>>
       ELSE /\ _last_sent' = clock
            /\ sent' = Append(sent, Message(clock, clock,
                                            RenderLines(resolved_map, latest, clock), TRUE))
    /\ UNCHANGED <<POLL_INTERVAL, tg_bot, lookup, resolved_map, latest, hist,
                   last, delivered, pc, loc>>

\* mutant: the loop is a timer whose thread starts the send when one is due
MainLoop_StartsSend(n) ==
    /\ pc["main"] = "sleep"
    /\ clock + n <= MaxClock
    /\ clock' = clock + n
    /\ IF ThrottleClosed(clock, _last_sent, POLL_INTERVAL) \/ ~tg_bot
       THEN UNCHANGED <<_last_sent, pc>>
       ELSE /\ _last_sent' = clock
            /\ pc' = [pc EXCEPT !["main"] = "send"]
    /\ UNCHANGED <<POLL_INTERVAL, tg_bot, lookup, resolved_map, latest, hist,
                   sent, last, delivered, loc>>

\* n rounds of main()'s `while True: time.sleep(1)`
MainLoop(n) ==
    /\ pc["main"] = "sleep"
    /\ clock + n <= MaxClock
    /\ clock' = clock + n
    /\ UNCHANGED <<POLL_INTERVAL, tg_bot, lookup, resolved_map, latest, hist,
                   _last_sent, sent, last, delivered, pc, loc>>

---------------------------------------------------------------------------
(* Specifications *)

PollChoices == {5, 12}

Init ==
    /\ POLL_INTERVAL \in PollChoices
    /\ tg_bot \in BOOLEAN
    /\ lookup \in LookupConfigs
    /\ resolved_map = resolve_symbols_list(lookup)
    /\ latest = EmptyDict
    /\ hist = {EmptyDict}
    /\ _last_sent = 0
    /\ clock = StartClock
    /\ sent = <<>>
    /\ last = [tick |-> NoneV, result |-> "none", at |-> 0]
    /\ delivered = 0
    /\ pc = [t \in Threads |-> IF t = "main" THEN "sleep" ELSE "idle"]
    /\ loc = [t \in FeedThreads |-> NoLocals]

\* the feed delivers ticks one at a time while the main loop sleeps
Next ==
    \/ \E tick \in ThrottleTicks, ok \in BOOLEAN :
          delivered < MaxThrottleTicks /\ FeedDelivers(tick, ok)
    \/ MainLoop(1)

Spec == Init /\ [][Next]_vars

\* the same, over every tick shape and with long idle spans
NextTicks ==
    \/ \E tick \in AllTicks, ok \in BOOLEAN :
          delivered < MaxTicks /\ FeedDelivers(tick, ok)
    \/ MainLoop(IdleSpan)

SpecTicks == Init /\ [][NextTicks]_vars

---------------------------------------------------------------------------
(* The callback step by step, for feed threads that run it concurrently *)

config == <<POLL_INTERVAL, tg_bot, lookup, resolved_map>>

\* thread t is handed a tick and runs _on_tick up to the call of
\* _maybe_send_telegram_update (or to its return when it stores nothing)
Enter(t, tick) ==
    /\ pc[t] = "idle"
    /\ delivered' = delivered + 1
    /\ last' = [tick |-> tick, result |-> callback_exit(TickRaises(tick)), at |-> clock]
    /\ IF TickRaises(tick)
       THEN UNCHANGED <<latest, pc, loc>>
       ELSE LET sid == tick_sid(tick)
                disp == tick_disp(resolved_map, sid)
                ltp == extract_ltp_from_tick(tick)
            IN  IF sid = NoneV \/ ~Truthy(disp)
                THEN UNCHANGED <<latest, pc, loc>>
                ELSE /\ latest' = StoreTick(latest, disp.s, ltp, tick)
                     /\ pc' = [pc EXCEPT ![t] = "now"]
                     /\ loc' = [loc EXCEPT ![t].tick = tick]
    /\ hist' = hist \cup {latest'}
    /\ UNCHANGED <<config, _last_sent, clock, sent>>

\* now = time.time()
ReadNow(t) ==
    /\ pc[t] = "now"
    /\ loc' = [loc EXCEPT ![t].now = clock]
    /\ pc' = [pc EXCEPT ![t] = "gate"]
    /\ UNCHANGED <<config, latest, hist, _last_sent, clock, sent, last, delivered>>

\* if now - _last_sent < max(10, POLL_INTERVAL): return
Gate(t) ==
    /\ pc[t] = "gate"
    /\ IF ThrottleClosed(loc[t].now, _last_sent, POLL_INTERVAL)
       THEN /\ pc' = [pc EXCEPT ![t] = "idle"]
            /\ loc' = [loc EXCEPT ![t] = NoLocals]
       ELSE /\ pc' = [pc EXCEPT ![t] = "set"]
            /\ UNCHANGED loc
    /\ UNCHANGED <<config, latest, hist, _last_sent, clock, sent, last, delivered>>

\* _last_sent = now
SetLastSent(t) ==
    /\ pc[t] = "set"
    /\ _last_sent' = loc[t].now
    /\ pc' = [pc EXCEPT ![t] = "render"]
    /\ UNCHANGED <<config, latest, hist, clock, sent, last, delivered, loc>>

\* ts = datetime.now()...; lines = [header]
Render(t) ==
    /\ pc[t] = "render"
    /\ loc' = [loc EXCEPT ![t].text = <<Header(clock)>>]
    /\ pc' = [pc EXCEPT ![t] = "line"]
    /\ UNCHANGED <<config, latest, hist, _last_sent, clock, sent, last, delivered>>

\* one round of `for name, info in resolved_map.items()`: latest.get(name) is
\* read from the shared table as it is now and the line is appended; after the
\* last round the text is joined and, without a bot, only logged
RenderSymbol(t) ==
    /\ pc[t] = "line"
    /\ LET i == Len(loc[t].text)
           lines == Append(loc[t].text, RenderLine(resolved_map[i], latest))
       IN  IF i < Len(resolved_map)
           THEN /\ loc' = [loc EXCEPT ![t].text = lines]
                /\ UNCHANGED pc
           ELSE IF tg_bot
           THEN /\ loc' = [loc EXCEPT ![t].text = lines]
                /\ pc' = [pc EXCEPT ![t] = "send"]
           ELSE /\ loc' = [loc EXCEPT ![t] = NoLocals]
                /\ pc' = [pc EXCEPT ![t] = "idle"]
    /\ UNCHANGED <<config, latest, hist, _last_sent, clock, sent, last, delivered>>

\* tg_bot.send_message returns or raises; either way the callback returns
SendDone(t, ok) ==
    /\ pc[t] = "send"
    /\ sent' = Append(sent, Message(loc[t].now, _last_sent, loc[t].text, ok))
    /\ pc' = [pc EXCEPT ![t] = "idle"]
    /\ loc' = [loc EXCEPT ![t] = NoLocals]
    /\ UNCHANGED <<config, latest, hist, _last_sent, clock, last, delivered>>

NextConc ==
    \/ \E t \in FeedThreads, tick \in ConcTicks :
          delivered < MaxConcTicks /\ Enter(t, tick)
    \/ \E t \in FeedThreads : ReadNow(t)
    \/ \E t \in FeedThreads : Gate(t)
    \/ \E t \in FeedThreads : SetLastSent(t)
    \/ \E t \in FeedThreads : Render(t)
    \/ \E t \in FeedThreads : RenderSymbol(t)
    \/ \E t \in Threads, ok \in BOOLEAN : SendDone(t, ok)
    \/ MainLoop(IdleSpan)

SpecConc == Init /\ [][NextConc]_vars

\* the main loop keeps running: time passes whatever the feed does
SpecFair == Init /\ [][Next]_vars /\ WF_vars(MainLoop(1))

---------------------------------------------------------------------------
(* Properties *)

\* the last step ran _maybe_send_telegram_update: a tick was delivered and stored
Invoked ==
    /\ delivered' = delivered + 1
    /\ \E n \in DOMAIN latest' : latest'[n].raw = last'.tick

\* the call of this state's last tick ran _maybe_send_telegram_update just now
InvokedNow ==
    /\ delivered > 0
    /\ last.at = clock
    /\ \E n \in DOMAIN latest : latest[n].raw = last.tick

\* the gap the code enforces, written out
EnforcedGap == IF POLL_INTERVAL > 10 THEN POLL_INTERVAL ELSE 10

\* the step handed exactly one new message, rendered now, to the Notifier
OneSnapshotHanded ==
    /\ Len(sent') = Len(sent) + 1
    /\ SubSeq(sent', 1, Len(sent)) = sent
    /\ sent'[Len(sent')].at = clock
    /\ Len(sent'[Len(sent')].text) = Len(SYMBOLS) + 1

\* C1: with calls one after another on a non-decreasing clock, any two calls
\* that reach the Notifier are at least the configured interval apart
C1_ThrottleInvariant ==
    \A i, j \in 1..Len(sent) : i < j => sent[j].at - sent[i].at >= POLL_INTERVAL

\* two messages sent exactly one configured interval apart, out of four ticks
C1_Witness ==
    /\ POLL_INTERVAL = 12
    /\ Len(sent) = 2
    /\ sent[2].at - sent[1].at = POLL_INTERVAL
    /\ delivered = 4

\* C3 as claimed: with a Notifier, the call is a no-op exactly when less than
\* the configured interval has passed, and otherwise sets the clock and sends
C3_Original ==
    [][(Invoked /\ tg_bot) =>
         IF clock - _last_sent < POLL_INTERVAL
         THEN sent' = sent /\ _last_sent' = _last_sent
         ELSE _last_sent' = clock /\ OneSnapshotHanded]_vars

\* C3 amended: the call is a no-op exactly when less than max(10, interval)
\* has passed; otherwise it sets the clock to now and hands one snapshot to
\* the Notifier if one is configured (without one nothing is sent)
C3_GateAmended ==
    [][Invoked =>
         IF clock - _last_sent < EnforcedGap
         THEN sent' = sent /\ _last_sent' = _last_sent
         ELSE /\ _last_sent' = clock
              /\ IF tg_bot THEN OneSnapshotHanded ELSE sent' = sent]_vars

\* a call that did nothing although the configured 5 seconds had passed
C3_Witness ==
    /\ POLL_INTERVAL = 5
    /\ InvokedNow
    /\ _last_sent > 0
    /\ clock - _last_sent >= POLL_INTERVAL
    /\ clock - _last_sent < 10

\* C7: the clock is set before the send; a failed send is swallowed, leaves
\* the clock set, is not repeated in the call, and the next call within the
\* interval does nothing
C7_TimeBased ==
    [][/\ Len(sent') <= Len(sent) + 1
       /\ Len(sent') = Len(sent) + 1 =>
            LET m == sent'[Len(sent')]
            IN  /\ m.seen = m.at
                /\ m.at = clock
                /\ ~m.ok => (_last_sent' = clock /\ last'.result = "returned")
       /\ (/\ Len(sent) > 0
           /\ ~sent[Len(sent)].ok
           /\ clock - sent[Len(sent)].at < EnforcedGap)
          => (sent' = sent /\ _last_sent' = _last_sent)]_vars

\* a call within the interval after a failed send, which did nothing
C7_Witness ==
    /\ Len(sent) = 1
    /\ ~sent[1].ok
    /\ InvokedNow
    /\ clock > sent[1].at
    /\ clock - sent[1].at < EnforcedGap
    /\ _last_sent = sent[1].at

---------------------------------------------------------------------------
(* Properties of the tick callback, over every tick shape *)

IdAliases == {"SecurityId", "securityId", "SecurityID", "securityID", "security_id", "sid"}
PriceAliases == {"LTP", "ltp", "last_price", "lastPrice", "lastPriceTicks", "last"}
Containers == {"data", "instrument", "payload"}

\* the dicts of a tick: the tick itself and its supported containers
DictsOf(tick) ==
    {tick} \cup {tick.d[c] : c \in {c \in Containers \cap DOMAIN tick.d : tick.d[c].ty = "dict"}}

\* every id a dict tick carries under an id alias, top level or nested
IdsAnywhere(tick) ==
    UNION {{py_str(dd.d[k]) : k \in IdAliases \cap DOMAIN dd.d} : dd \in DictsOf(tick)}

\* every non-null price a dict tick carries under a price alias, top level or nested
CarriedPrices(tick) ==
    UNION {{dd.d[k] : k \in {k \in PriceAliases \cap DOMAIN dd.d : dd.d[k] # NoneV}}
           : dd \in DictsOf(tick)}

ResolvedIds ==
    {resolved_map[i].sid.s : i \in {i \in 1..Len(resolved_map) : resolved_map[i].sid # NoneV}}

\* the tick matches no registry entry, or no id can be taken from it
Unmatched(tick) == tick.ty # "dict" \/ IdsAnywhere(tick) \cap ResolvedIds = {}

\* the names of the resolved entries whose id is the one the callback extracts
MatchedNames(tick) ==
    IF tick.ty # "dict" \/ tick_sid(tick) = NoneV THEN {}
    ELSE {resolved_map[i].name :
            i \in {i \in 1..Len(resolved_map) : resolved_map[i].sid = tick_sid(tick)}}

\* C4: a tick that matches no registry entry (or has no id) changes neither
\* the store nor the throttle clock and triggers no Notifier call
C4_UnmatchedTickNoEffect ==
    [][(delivered' = delivered + 1 /\ Unmatched(last'.tick)) =>
         (latest' = latest /\ _last_sent' = _last_sent /\ sent' = sent)]_vars

\* an unknown id arrives when an update is due, and nothing is sent
C4_Witness ==
    /\ last.tick = TickUnknown
    /\ last.at = clock
    /\ tg_bot
    /\ latest # EmptyDict
    /\ clock - _last_sent >= EnforcedGap
    /\ Len(sent) = 1

\* C5: after a tick whose extracted id is that of a resolved entry and which
\* carries a price under a supported alias, the store holds that price under
\* that entry's name, and the tick under no other name
C5_MatchedTickStored ==
    (delivered > 0 /\ MatchedNames(last.tick) # {}
       /\ Cardinality(CarriedPrices(last.tick)) = 1) =>
      \E n \in MatchedNames(last.tick) :
         /\ n \in DOMAIN latest
         /\ latest[n].ltp \in CarriedPrices(last.tick)
         /\ \A m \in DOMAIN latest : latest[m].raw = last.tick => m = n

\* C6 as claimed: a matched tick that carries no price leaves the store as it was
C6_Original ==
    [][(delivered' = delivered + 1 /\ MatchedNames(last'.tick) # {}
          /\ CarriedPrices(last'.tick) = {}) =>
         latest' = latest]_vars

\* C6 amended: a matched tick that carries no price is not discarded: the
\* symbol's entry is overwritten with a null price (a stored price is lost),
\* the other entries are unchanged and no error is surfaced
C6_NullOverwrites ==
    [][(delivered' = delivered + 1 /\ MatchedNames(last'.tick) # {}
          /\ CarriedPrices(last'.tick) = {}) =>
         \E n \in MatchedNames(last'.tick) :
            /\ DOMAIN latest' = DOMAIN latest \cup {n}
            /\ latest'[n] = [ltp |-> NoneV, raw |-> last'.tick]
            /\ \A m \in DOMAIN latest \ {n} : latest'[m] = latest[m]
            /\ last'.result = "returned"]_vars

\* a price that was stored and sent is gone after a tick without a price
C6_Witness ==
    /\ last.tick = TickNiftyNoPrice
    /\ "NIFTY 50" \in DOMAIN latest
    /\ latest["NIFTY 50"].ltp = NoneV
    /\ Len(sent) = 1
    /\ sent[1].text[2] = "NIFTY 50 (NSE_INDEX): 24500.55"

\* C8: whatever the tick, and whether or not the send fails, the callback
\* returns to the feed: no exception leaves it
C8_NeverPropagates == delivered > 0 => last.result \in {"returned", "logged"}

\* a tick that is no record, after a tick whose send failed
C8_Witness ==
    /\ last.tick = TickNone
    /\ last.result = "logged"
    /\ Len(sent) = 1
    /\ ~sent[1].ok

---------------------------------------------------------------------------
(* Properties of concurrent callbacks and of the cadence *)

\* thread t is between the entry and the return of _on_tick
InCallback(t) == pc[t] \in {"now", "gate", "set", "render", "line", "send"}

\* thread t is inside tg_bot.send_message
SendInProgress(t) == pc[t] = "send"

\* C2: with callbacks running concurrently, no two of them pass the gate
\* within one interval and both send
C2_AtomicGate ==
    \A i, j \in 1..Len(sent) :
       i # j => (sent[i].at - sent[j].at >= EnforcedGap
                 \/ sent[j].at - sent[i].at >= EnforcedGap)

\* C9 as claimed: once the interval has passed since the last update, an
\* update reaches the Notifier even if no tick arrives
C9_Original ==
    \A k \in 0..MaxThrottleTicks :
       (tg_bot /\ clock - _last_sent >= EnforcedGap /\ Len(sent) = k)
          ~> (Len(sent) > k)

\* C9 amended: updates are driven by ticks, not by a cadence of their own: a
\* message reaches the Notifier only in the call of _on_tick for a tick that
\* matched a registry entry, and only if the interval has passed; the main
\* loop never sends, however long no matching tick arrives
C9_TickDriven ==
    [][Len(sent') > Len(sent) =>
         /\ delivered' = delivered + 1
         /\ clock' = clock
         /\ last'.at = clock
         /\ MatchedNames(last'.tick) # {}
         /\ clock - _last_sent >= EnforcedGap]_vars

\* an update long overdue went out only when a matching tick arrived
C9_Witness ==
    /\ Len(sent) = 2
    /\ sent[2].at - sent[1].at > EnforcedGap
    /\ InvokedNow
    /\ last.at = sent[2].at

\* C10 as claimed: no send is in progress between the entry and the return of
\* a call of _on_tick
C10_Original == \A t \in Threads : InCallback(t) => ~SendInProgress(t)

\* C10 amended: the tick path itself sends: every send in progress is inside a
\* call of _on_tick for a matched tick, on the feed thread that runs it; no
\* other thread and no other path sends
C10_SendInsideCallback ==
    \A t \in Threads :
       SendInProgress(t) =>
          /\ t \in FeedThreads
          /\ InCallback(t)
          /\ MatchedNames(loc[t].tick) # {}

\* one feed thread is inside send_message while the other runs the callback
C10_Witness ==
    /\ SendInProgress("feed1")
    /\ pc["feed2"] = "gate"

\* the price lines of a message rendered from the table `store` in one piece
PriceLines(store) == [i \in 1..Len(resolved_map) |-> RenderLine(resolved_map[i], store)]

\* C11: the price lines of every message sent are those of one value the
\* table had at some instant, also when ticks are stored while another
\* callback renders
C11_PointInTime ==
    \A i \in 1..Len(sent) : \E store \in hist : Tail(sent[i].text) = PriceLines(store)

---------------------------------------------------------------------------
(* Properties of the table and of matching *)

\* C12: a matched tick processed with price p2 leaves p2 under its name
\* whatever price was stored before, adds no other entry and leaves the
\* entries of the other names as they were; no step removes an entry
C12_LastWriteWins ==
    [][/\ DOMAIN latest \subseteq DOMAIN latest'
       /\ (/\ delivered' = delivered + 1
           /\ MatchedNames(last'.tick) # {}
           /\ extract_ltp_from_tick(last'.tick) # NoneV) =>
             \E n \in MatchedNames(last'.tick) :
                /\ DOMAIN latest' = DOMAIN latest \cup {n}
                /\ latest'[n].ltp = extract_ltp_from_tick(last'.tick)
                /\ latest'[n].raw = last'.tick
                /\ \A m \in DOMAIN latest \ {n} : latest'[m] = latest[m]]_vars

\* 24500.55 was stored and sent, then 24501 arrived for the same name and
\* replaced it, with the entry of another name in between left alone
C12_Witness ==
    /\ last.tick = TickNiftyLast
    /\ DOMAIN latest = {"NIFTY 50", "NIFTY BANK"}
    /\ latest["NIFTY 50"].ltp = I(24501)
    /\ latest["NIFTY BANK"].ltp = F(9990)
    /\ Len(sent) = 1
    /\ sent[1].text[2] = "NIFTY 50 (NSE_INDEX): 24500.55"

\* the keys under which a tick may carry its segment; "ExchangeSegment" is the
\* key of the instrument records the feed is subscribed with
SegmentAliases == {"ExchangeSegment", "exchangeSegment", "exchange_segment", "segment"}

\* the segment tags a dict tick carries, top level or nested
SegmentsOf(tick) ==
    UNION {{py_str(dd.d[k]) : k \in {k \in SegmentAliases \cap DOMAIN dd.d : dd.d[k] # NoneV}}
           : dd \in DictsOf(tick)}

\* the resolved entries that have the tick's id and, when the tick carries a
\* segment, that segment too
MatchedWithSegment(tick) ==
    IF tick.ty # "dict" THEN {}
    ELSE {resolved_map[i].name :
            i \in {i \in 1..Len(resolved_map) :
                      /\ resolved_map[i].sid # NoneV
                      /\ resolved_map[i].sid.s \in IdsAnywhere(tick)
                      /\ SegmentsOf(tick) # {} => resolved_map[i].seg.s \in SegmentsOf(tick)}}

\* C13: a tick that carries a segment is matched only by an entry with its
\* id and that segment; when no entry has both, the tick is dropped
C13_SegmentFilter ==
    [][(delivered' = delivered + 1 /\ MatchedWithSegment(last'.tick) = {}) =>
         (latest' = latest /\ _last_sent' = _last_sent /\ sent' = sent)]_vars

---------------------------------------------------------------------------
(* Properties of price extraction *)

\* the aliases in priority order and the containers searched, as specified
PriceOrder == <<"LTP", "ltp", "last_price", "lastPrice", "lastPriceTicks", "last">>
ContainerOrder == <<"data", "instrument", "payload">>

\* the first non-null price alias of one record, None when there is none
FirstPrice(rec) ==
    LET i == FirstIdx({j \in 1..Len(PriceOrder) :
                          PriceOrder[j] \in DOMAIN rec.d /\ rec.d[PriceOrder[j]] # NoneV})
    IN  IF i = 0 THEN NoneV ELSE rec.d[PriceOrder[i]]

\* the price the specified search yields: top level first, then the first
\* container that holds one
SpecifiedPrice(tick) ==
    LET c == FirstIdx({j \in 1..Len(ContainerOrder) :
                          /\ HasDict(tick, ContainerOrder[j])
                          /\ FirstPrice(tick.d[ContainerOrder[j]]) # NoneV})
    IN  IF FirstPrice(tick) # NoneV THEN FirstPrice(tick)
        ELSE IF c = 0 THEN NoneV
        ELSE FirstPrice(tick.d[ContainerOrder[c]])

\* C14: for every record handed to the callback, the price extracted is the
\* first non-null alias at top level, else the first non-null alias under
\* "data", "instrument" or "payload", else absent
C14_ExtractPrice ==
    (delivered > 0 /\ last.tick.ty = "dict") =>
       extract_ltp_from_tick(last.tick) = SpecifiedPrice(last.tick)

---------------------------------------------------------------------------
(* Properties of symbol resolution *)

\* the lookup table and the segment tag of a declared category
TableOf(kind) ==
    CASE kind = "indices_nse" -> lookup.INDICES_NSE
      [] kind = "indices_bse" -> lookup.INDICES_BSE
      [] OTHER -> lookup.NIFTY50_STOCKS

SegmentOf(kind) ==
    CASE kind = "indices_nse" -> "NSE_INDEX"
      [] kind = "indices_bse" -> "BSE_INDEX"
      [] OTHER -> "NSE_EQ"

\* the registry has one entry per configured symbol, in configured order
OnePerSymbol ==
    /\ Len(resolved_map) = Len(SYMBOLS)
    /\ \A i \in 1..Len(SYMBOLS) : resolved_map[i].name = SYMBOLS[i][1]

\* C15 as claimed: a name its category's table contains is resolved with the
\* category's segment and the table's id; an absent name has a null id
C15_Original ==
    /\ OnePerSymbol
    /\ \A i \in 1..Len(SYMBOLS) :
          LET n == SYMBOLS[i][1]
              kind == SYMBOLS[i][2]
          IN  IF n \in DOMAIN TableOf(kind)
              THEN /\ resolved_map[i].seg = S(SegmentOf(kind))
                   /\ resolved_map[i].sid = S(TableOf(kind)[n])
              ELSE resolved_map[i].sid = NoneV

\* C15 amended: a name whose category's table holds a non-empty id for it is
\* resolved with the category's segment and that id; a name that is absent,
\* or whose id in the table is empty, is unresolved with null segment and id
C15_ResolveNonEmpty ==
    /\ OnePerSymbol
    /\ \A i \in 1..Len(SYMBOLS) :
          LET n == SYMBOLS[i][1]
              kind == SYMBOLS[i][2]
          IN  IF n \in DOMAIN TableOf(kind) /\ TableOf(kind)[n] # ""
              THEN /\ resolved_map[i].seg = S(SegmentOf(kind))
                   /\ resolved_map[i].sid = S(TableOf(kind)[n])
              ELSE /\ resolved_map[i].seg = NoneV
                   /\ resolved_map[i].sid = NoneV

\* tables with a name resolved, a name absent and a name whose id is empty,
\* and the registry is in use
C15_Witness ==
    /\ resolved_map[1] = [name |-> "NIFTY 50", seg |-> S("NSE_INDEX"), sid |-> S("13")]
    /\ "SENSEX" \notin DOMAIN lookup.INDICES_BSE
    /\ resolved_map[3].sid = NoneV
    /\ "RELIANCE" \in DOMAIN lookup.NIFTY50_STOCKS
    /\ resolved_map[5].sid = NoneV
    /\ "TCS" \notin DOMAIN lookup.NIFTY50_STOCKS
    /\ resolved_map[6] = [name |-> "TCS", seg |-> NoneV, sid |-> NoneV]
    /\ delivered > 0

---------------------------------------------------------------------------
(* Properties of the rendered message *)

\* what may stand in the segment position of a line
SegmentTexts == {"NSE_INDEX", "BSE_INDEX", "NSE_EQ", "", "?"}

\* a price as a line shows it: two decimals when numeric, else as it is
PriceText(v) == IF FloatOk(v) THEN Fixed2(FloatOf(v)) ELSE py_str(v)

\* what a line shows for the name n given the table `store`
Shown(n, store) ==
    IF n \in DOMAIN store /\ store[n].ltp # NoneV
    THEN PriceText(store[n].ltp)
    ELSE "(No Data)"

\* C16: every message sent is a header line followed by exactly one line per
\* tracked symbol, in declared order, showing the stored price of the symbol,
\* or "(No Data)" when it has no entry or a null price
C16_OneLinePerSymbol ==
    [][Len(sent') > Len(sent) =>
         LET m == sent'[Len(sent')]
         IN  /\ Len(m.text) = Len(SYMBOLS) + 1
             /\ m.text[1] = Header(m.at)
             /\ \A i \in 1..Len(SYMBOLS) :
                   \E seg \in SegmentTexts :
                      m.text[i + 1] = SYMBOLS[i][1] \o " (" \o seg \o "): "
                                        \o Shown(SYMBOLS[i][1], latest')]_vars

\* a message with a priced symbol, a symbol stored with a null price and a
\* symbol never observed
C16_Witness ==
    /\ Len(sent) = 2
    /\ last.tick = TickNiftyNoPrice
    /\ latest["NIFTY 50"].ltp = NoneV
    /\ "SENSEX" \notin DOMAIN latest
    /\ sent[2].text[2] = "NIFTY 50 (NSE_INDEX): (No Data)"
    /\ sent[2].text[3] = "NIFTY BANK (NSE_INDEX): 99.90"
    /\ sent[2].text[4] = "SENSEX (BSE_INDEX): (No Data)"

\* the positions of the registry entries that were not resolved
UnresolvedAt == {i \in 1..Len(resolved_map) : resolved_map[i].sid = NoneV}

\* C17 as claimed: an unresolved symbol is rendered with "?" as its segment
C17_Original ==
    \A k \in 1..Len(sent) : \A i \in UnresolvedAt :
       sent[k].text[i + 1] = resolved_map[i].name \o " (?): (No Data)"

\* C17 amended: an unresolved symbol is rendered in every message with an
\* empty segment position, as "{displayName} (): (No Data)"
C17_EmptySegment ==
    \A k \in 1..Len(sent) : \A i \in UnresolvedAt :
       sent[k].text[i + 1] = resolved_map[i].name \o " (): (No Data)"

\* two messages, twelve seconds apart, with SENSEX unresolved in both
C17_Witness ==
    /\ 3 \in UnresolvedAt
    /\ Len(sent) = 2
    /\ delivered = 3
    /\ sent[1].text[4] = "SENSEX (): (No Data)"
    /\ sent[2].text[4] = "SENSEX (): (No Data)"
    /\ sent[2].text[2] = "NIFTY 50 (NSE_INDEX): 24500.55"

---------------------------------------------------------------------------
(* Properties of matching against the registry *)

\* the tracked names whose category's table holds a non-empty id for them
ResolvedNames ==
    {SYMBOLS[i][1] :
       i \in {i \in 1..Len(SYMBOLS) :
                 /\ SYMBOLS[i][1] \in DOMAIN TableOf(SYMBOLS[i][2])
                 /\ TableOf(SYMBOLS[i][2])[SYMBOLS[i][1]] # ""}}

\* C18: whatever ticks have arrived, ticks with a null id at top level or in
\* a container included, only resolved symbols have an entry in the table
C18_UnresolvedNeverStored == DOMAIN latest \subseteq ResolvedNames

\* with SENSEX unresolved, a tick whose ids are all null has been handled
\* after ticks that were stored
C18_Witness ==
    /\ "SENSEX" \notin ResolvedNames
    /\ last.tick = TickNullId
    /\ last.result = "returned"
    /\ delivered = 3
    /\ Cardinality(DOMAIN latest) = 2

\* the positions in SYMBOLS of the resolved entries that carry the tick's id
MatchedAt(tick) ==
    IF tick.ty # "dict" \/ tick_sid(tick) = NoneV THEN {}
    ELSE {i \in 1..Len(SYMBOLS) : resolved_map[i].sid = tick_sid(tick)}

\* C19: a tick whose id several registry entries carry is stored under the
\* entry that comes first in the tracked-symbol order, and the later entries
\* with that id have no slot in the table
C19_FirstInsertedWins ==
    [][delivered' = delivered + 1 =>
         LET at == MatchedAt(last'.tick)
         IN  at # {} =>
                \E i \in at :
                   /\ \A j \in at : i <= j
                   /\ SYMBOLS[i][1] \in DOMAIN latest'
                   /\ latest'[SYMBOLS[i][1]].raw = last'.tick
                   /\ \A j \in at \ {i} : SYMBOLS[j][1] \notin DOMAIN latest']_vars

\* NIFTY 50 and TATAMOTORS both carry id 13; two ticks with that id went to
\* NIFTY 50, and TATAMOTORS is shown without data
C19_Witness ==
    /\ MatchedNames(last.tick) = {"NIFTY 50", "TATAMOTORS"}
    /\ last.tick = TickNiftyLast
    /\ latest["NIFTY 50"].ltp = I(24501)
    /\ "TATAMOTORS" \notin DOMAIN latest
    /\ Len(sent) = 1
    /\ sent[1].text[2] = "NIFTY 50 (NSE_INDEX): 24500.55"
    /\ sent[1].text[5] = "TATAMOTORS (NSE_EQ): (No Data)"

---------------------------------------------------------------------------
(* Properties of the throttle clock under concurrent callbacks *)

\* C20: no step, of whatever thread, sets _last_sent to an earlier time
C20_NeverDecreases == [][_last_sent' >= _last_sent]_vars

====
